---- MODULE Spec2Model ----
(***************************************************************************)
(* Model of website_analyzer/crawler.py: the WebCrawler object and its     *)
(* crawl() loop.  The instance fields (max_pages, visited_urls,            *)
(* urls_to_visit) live as long as the WebCrawler; the locals of crawl()    *)
(* (start_url, crawl_stats, page_count, normalized_url) are reset by each  *)
(* call.  The web is the environment: the outcome of every Playwright call *)
(* and the list of hrefs a page holds are chosen nondeterministically.     *)
(***************************************************************************)
EXTENDS Integers, Sequences, FiniteSets, TLC

(* ------------------------------ bounds -------------------------------- *)
\* crawl() calls made on the one WebCrawler instance
MaxCrawls == 2
\* hrefs that page.evaluate returns for one page
MaxLinks == 2
\* small page budgets; Budgets adds one budget no site of the model exhausts
MaxBudget == 2

Budgets == (1..MaxBudget) \cup {10}

(* ------------------------------- URLs --------------------------------- *)
\* A URL string, split in the parts the utils functions look at.
U(host, path, ext, slash, frag) ==
  [scheme |-> "https", host |-> host, path |-> path, ext |-> ext,
   slash |-> slash, frag |-> frag]

Mailto == [scheme |-> "mailto", host |-> "", path |-> "someone", ext |-> "",
           slash |-> FALSE, frag |-> FALSE]

Lower(h) == IF h = "SITE" THEN "site" ELSE h

DownloadableExts == {"pdf", "zip"}

\* utils.normalize_url: lowercases the host, drops the fragment and the
\* trailing slash.
normalize_url(u) == [u EXCEPT !.host = Lower(u.host), !.slash = FALSE, !.frag = FALSE]

\* utils.is_same_domain: exact host match, case-insensitive.
is_same_domain(base, cand) == Lower(base.host) = Lower(cand.host)

\* utils.is_downloadable_file: by the extension of the path.
is_downloadable_file(u) == u.ext \in DownloadableExts

\* link.startswith(('http://', 'https://'))
IsHttp(u) == u.scheme \in {"http", "https"}

A == U("site", "", "", FALSE, FALSE)
B == U("site", "b", "", FALSE, FALSE)
C == U("site", "c", "", FALSE, FALSE)
D == U("site", "d", "", FALSE, FALSE)
X == U("other", "x", "", FALSE, FALSE)
F == U("site", "f", "pdf", FALSE, FALSE)

\* The hrefs a page of the modelled web can hold (raw, not normalized).
RawLinks ==
  { U("site", "", "", TRUE, FALSE),      \* the home page, with trailing slash
    U("SITE", "b", "", FALSE, TRUE),     \* B: upper-case host, fragment
    U("site", "c", "", TRUE, FALSE),     \* C with trailing slash
    X,                                   \* another host
    F,                                   \* a downloadable file
    Mailto }

\* The start_url arguments crawl() is called with (raw).
Seeds ==
  { U("SITE", "", "", TRUE, FALSE), X, F }

NormUrls == {normalize_url(u) : u \in (RawLinks \ {Mailto}) \cup Seeds} \cup {D}

LinkSeqs == UNION {[1..n -> RawLinks] : n \in 0..MaxLinks}

\* The site of the BFS example: A -> B, C; B -> D; C -> D.
DiamondLinks(u) ==
  IF u = A THEN <<U("SITE", "b", "", FALSE, TRUE), U("site", "c", "", TRUE, FALSE)>>
  ELSE IF u = B \/ u = C THEN <<D>>
  ELSE <<>>

(* ------------------------------ state --------------------------------- *)
VARIABLES
  max_pages,       \* self.max_pages
  visited_urls,    \* self.visited_urls
  urls_to_visit,   \* self.urls_to_visit
  pc,              \* position in crawl(): idle, launch, loop, open, goto,
                   \* loaded, done (returned), raised_setup, raised_page
  start_url,       \* the normalized start_url of the current call
  page_count,      \* local page_count
  pages,           \* crawl_stats['pages']: records [url, number]
  pages_crawled,   \* crawl_stats['pages_crawled']
  cur,             \* normalized_url of the page being processed
  web,             \* the web crawled: "any" (a page holds any hrefs of
                   \* RawLinks) or "diamond" (the site DiamondLinks)
  \* history of the current crawl() call, not read by the program
  crawlNo,         \* crawl() calls made so far on this instance
  opens,           \* browser.new_context() calls
  closes,          \* context.close() calls
  live,            \* contexts opened and not yet closed
  gotoCount,       \* page.goto calls per URL
  failed,          \* URLs whose page.goto failed
  refound,         \* a failed URL was seen again among the links of a later page
  linked,          \* first call only: the URLs extract_links returned on the
                   \* recorded pages
  last,            \* how the latest per-page step ended; "none" once the
                   \* loop has moved on
  discovered       \* the frontier at the start of the call, then every URL
                   \* appended to it, in order

vars == <<max_pages, visited_urls, urls_to_visit, pc, start_url, page_count,
          pages, pages_crawled, cur, web, crawlNo, opens, closes, live,
          gotoCount, failed, refound, linked, last, discovered>>

instance == <<max_pages, visited_urls, urls_to_visit, web>>
history == <<crawlNo, gotoCount, failed, refound, linked, discovered>>

(* ----------------------------- helpers -------------------------------- *)
RECURSIVE extract_links(_, _)
\* WebCrawler.extract_links on the hrefs `links` of the page
extract_links(links, base_url) ==
  IF links = <<>> THEN <<>>
  ELSE LET link == Head(links)
           rest == extract_links(Tail(links), base_url)
       IN IF ~IsHttp(link) THEN rest
          ELSE IF ~is_same_domain(base_url, link) THEN rest
          ELSE IF is_downloadable_file(link) THEN rest
          ELSE <<normalize_url(link)>> \o rest

\* WebCrawler.url_in_list
url_in_list(url, url_list) ==
  \E i \in 1..Len(url_list) : normalize_url(url_list[i]) = normalize_url(url)

\* self.urls_to_visit.pop(0): the element taken and what is left
PopsBack(queue) == <<queue[Len(queue)], SubSeq(queue, 1, Len(queue) - 1)>>
Pop(queue) == <<Head(queue), Tail(queue)>>

\* self.visited_urls.add(url)
ForgetVisited(visited, url) == visited
MarkVisited(visited, url) == visited \cup {url}

\* the while condition of crawl()
LoopCondOffByOne(queue, count) == queue # <<>> /\ count <= max_pages
LoopCondStopsEarly(queue, count) == queue # <<>> /\ count < max_pages - 1
LoopCond(queue, count) == queue # <<>> /\ count < max_pages

RECURSIVE EnqueueIgnoresVisited(_, _, _)
EnqueueIgnoresVisited(new_links, visited, queue) ==
  IF new_links = <<>> THEN queue
  ELSE LET normalized_link == normalize_url(Head(new_links))
       IN IF ~url_in_list(normalized_link, queue)
          THEN EnqueueIgnoresVisited(Tail(new_links), visited, Append(queue, normalized_link))
          ELSE EnqueueIgnoresVisited(Tail(new_links), visited, queue)

\* enqueues the first new link only
EnqueueFirstOnly(new_links, visited, queue) ==
  IF new_links = <<>> THEN queue
  ELSE LET normalized_link == normalize_url(Head(new_links))
       IN IF normalized_link \notin visited /\ ~url_in_list(normalized_link, queue)
          THEN Append(queue, normalized_link)
          ELSE queue

RECURSIVE Enqueue(_, _, _)
\* the `for link in new_links` loop: the frontier after it
Enqueue(new_links, visited, queue) ==
  IF new_links = <<>> THEN queue
  ELSE LET normalized_link == normalize_url(Head(new_links))
       IN IF normalized_link \notin visited /\ ~url_in_list(normalized_link, queue)
          THEN Enqueue(Tail(new_links), visited, Append(queue, normalized_link))
          ELSE Enqueue(Tail(new_links), visited, queue)

Range(s) == {s[i] : i \in 1..Len(s)}

\* the URLs of crawl_stats['pages'], in order and as a set
PageUrls == [i \in 1..Len(pages) |-> pages[i].url]
PageUrlSet == {pages[i].url : i \in 1..Len(pages)}

(* ------------------------------ actions ------------------------------- *)
Init ==
  /\ max_pages \in Budgets
  /\ web \in {"any", "diamond"}
  /\ visited_urls = {}
  /\ urls_to_visit = <<>>
  /\ pc = "idle"
  /\ start_url = A
  /\ page_count = 0
  /\ pages = <<>>
  /\ pages_crawled = 0
  /\ cur = A
  /\ crawlNo = 0
  /\ opens = 0
  /\ closes = 0
  /\ live = 0
  /\ gotoCount = [u \in NormUrls |-> 0]
  /\ failed = {}
  /\ refound = FALSE
  /\ linked = {}
  /\ last = "none"
  /\ discovered = <<>>

\* crawl(start_url), lines 99-114
Crawl(raw) ==
  /\ pc \in {"idle", "done", "raised_setup", "raised_page"}
  /\ crawlNo < MaxCrawls
  /\ start_url' = normalize_url(raw)
  /\ urls_to_visit' = Append(urls_to_visit, normalize_url(raw))
  /\ pages' = <<>>
  /\ pages_crawled' = 0
  /\ pc' = "launch"
  /\ crawlNo' = crawlNo + 1
  /\ opens' = 0
  /\ closes' = 0
  /\ live' = 0
  /\ gotoCount' = [u \in NormUrls |-> 0]
  /\ failed' = {}
  /\ refound' = FALSE
  /\ linked' = {}
  /\ last' = "none"
  /\ discovered' = urls_to_visit'
  /\ UNCHANGED <<max_pages, visited_urls, page_count, cur, web>>

\* lines 116-120: the browser is launched
Launch ==
  /\ pc = "launch"
  /\ pc' = "loop"
  /\ page_count' = 0
  /\ UNCHANGED <<instance, start_url, pages, pages_crawled, cur, opens, closes, live,
                 last, history>>

\* lines 116-118: sync_playwright() or launch() raises
LaunchRaises ==
  /\ pc = "launch"
  /\ pc' = "raised_setup"
  /\ UNCHANGED <<instance, start_url, page_count, pages, pages_crawled, cur,
                 opens, closes, live, last, history>>

\* line 121 false, lines 203-216
LoopExit ==
  /\ pc = "loop"
  /\ ~LoopCond(urls_to_visit, page_count)
  /\ pages_crawled' = page_count
  /\ pc' = "done"
  /\ last' = "none"
  /\ UNCHANGED <<instance, start_url, page_count, pages, cur, opens, closes, live, history>>

\* lines 121-130: the dequeued URL is already visited
SkipVisited ==
  /\ pc = "loop"
  /\ LoopCond(urls_to_visit, page_count)
  /\ LET normalized_url == normalize_url(Pop(urls_to_visit)[1])
     IN /\ normalized_url \in visited_urls
        /\ urls_to_visit' = Pop(urls_to_visit)[2]
        /\ cur' = normalized_url
  /\ last' = "none"
  /\ UNCHANGED <<max_pages, visited_urls, web, pc, start_url, page_count, pages,
                 pages_crawled, opens, closes, live, history>>

\* lines 121-138: the dequeued URL is a downloadable file
SkipDownloadable ==
  /\ pc = "loop"
  /\ LoopCond(urls_to_visit, page_count)
  /\ LET normalized_url == normalize_url(Pop(urls_to_visit)[1])
     IN /\ normalized_url \notin visited_urls
        /\ is_downloadable_file(normalized_url)
        /\ urls_to_visit' = Pop(urls_to_visit)[2]
        /\ visited_urls' = MarkVisited(visited_urls, normalized_url)
        /\ cur' = normalized_url
  /\ last' = "none"
  /\ UNCHANGED <<max_pages, web, pc, start_url, page_count, pages, pages_crawled,
                 opens, closes, live, history>>

\* lines 121-140: the dequeued URL is to be fetched
DequeueFetchesFiles ==
  /\ pc = "loop"
  /\ LoopCond(urls_to_visit, page_count)
  /\ LET normalized_url == normalize_url(Pop(urls_to_visit)[1])
     IN /\ normalized_url \notin visited_urls
        /\ urls_to_visit' = Pop(urls_to_visit)[2]
        /\ visited_urls' = MarkVisited(visited_urls, normalized_url)
        /\ cur' = normalized_url
  /\ pc' = "open"
  /\ last' = "none"
  /\ UNCHANGED <<max_pages, web, start_url, page_count, pages, pages_crawled,
                 opens, closes, live, history>>
Dequeue ==
  /\ pc = "loop"
  /\ LoopCond(urls_to_visit, page_count)
  /\ LET normalized_url == normalize_url(Pop(urls_to_visit)[1])
     IN /\ normalized_url \notin visited_urls
        /\ ~is_downloadable_file(normalized_url)
        /\ urls_to_visit' = Pop(urls_to_visit)[2]
        /\ visited_urls' = MarkVisited(visited_urls, normalized_url)
        /\ cur' = normalized_url
  /\ pc' = "open"
  /\ last' = "none"
  /\ UNCHANGED <<max_pages, web, start_url, page_count, pages, pages_crawled,
                 opens, closes, live, history>>

\* lines 143-151: the context and the page are created
OpenContext ==
  /\ pc = "open"
  /\ opens' = opens + 1
  /\ live' = live + 1
  /\ pc' = "goto"
  /\ UNCHANGED <<instance, start_url, page_count, pages, pages_crawled, cur,
                 closes, last, history>>

\* line 143: browser.new_context() raises, outside the try
NewContextRaises ==
  /\ pc = "open"
  /\ pc' = "raised_page"
  /\ last' = "new_context"
  /\ UNCHANGED <<instance, start_url, page_count, pages, pages_crawled, cur,
                 opens, closes, live, history>>

\* line 144: context.new_page() raises, outside the try
NewPageRaises ==
  /\ pc = "open"
  /\ opens' = opens + 1
  /\ live' = live + 1
  /\ pc' = "raised_page"
  /\ last' = "new_page"
  /\ UNCHANGED <<instance, start_url, page_count, pages, pages_crawled, cur,
                 closes, history>>

\* lines 45-48: what page.evaluate can return on the page at url
Hrefs(url) == IF web = "diamond" THEN {DiamondLinks(url)} ELSE LinkSeqs

\* the history of a page.goto call on cur
Attempt(ok) ==
  /\ gotoCount' = [gotoCount EXCEPT ![cur] = @ + 1]
  /\ failed' = IF ok THEN failed ELSE failed \cup {cur}
  /\ UNCHANGED <<crawlNo, refound, linked, discovered>>

\* lines 196-201: an except clause, then the finally clause, then line 121
CaughtCounts ==
  /\ closes' = closes + 1
  /\ live' = live - 1
  /\ page_count' = page_count + 1
  /\ pc' = "loop"
  /\ UNCHANGED <<instance, start_url, pages, pages_crawled, cur, opens>>
CaughtLeaks ==
  /\ pc' = "loop"
  /\ UNCHANGED <<instance, start_url, page_count, pages, pages_crawled, cur, opens,
                 closes, live>>
Caught ==
  /\ closes' = closes + 1
  /\ live' = live - 1
  /\ pc' = "loop"
  /\ UNCHANGED <<instance, start_url, page_count, pages, pages_crawled, cur, opens>>

\* lines 155-163: page.goto returns a response with status < 400
GotoOk ==
  /\ pc = "goto"
  /\ Attempt(TRUE)
  /\ pc' = "loaded"
  /\ UNCHANGED <<instance, start_url, page_count, pages, pages_crawled, cur,
                 opens, closes, live, last>>

\* lines 155-160, 200-201: no response or status >= 400; context.close() at
\* line 159, `continue` runs the finally clause, context.close() at line 201
\* (on the context already closed)
GotoStatusFail ==
  /\ pc = "goto"
  /\ Attempt(FALSE)
  /\ closes' = closes + 2
  /\ live' = live - 1
  /\ pc' = "loop"
  /\ last' = "status"
  /\ UNCHANGED <<instance, start_url, page_count, pages, pages_crawled, cur, opens>>

\* lines 155, 196-197, 200-201: page.goto raises PlaywrightTimeoutError
GotoTimeout ==
  /\ pc = "goto"
  /\ Attempt(FALSE)
  /\ Caught
  /\ last' = "timeout"

\* lines 155, 198-201: page.goto raises another error
GotoError ==
  /\ pc = "goto"
  /\ Attempt(FALSE)
  /\ Caught
  /\ last' = "navigation"

\* lines 163-171, 196-201: wait_for_timeout, screenshot_capturer.capture or
\* lighthouse_auditor.audit raises (a collaborator raises only when given)
CollaboratorRaises ==
  /\ pc = "loaded"
  /\ Caught
  /\ last' = "collaborator"
  /\ UNCHANGED history

\* lines 174, 45-48, 198-201: page.evaluate raises inside extract_links
ExtractRaises ==
  /\ pc = "loaded"
  /\ Caught
  /\ last' = "extract"
  /\ UNCHANGED history

\* lines 163-194, 200-201: the page is processed to the end; `links` is what
\* page.evaluate returns
ProcessOk(links) ==
  /\ pc = "loaded"
  /\ LET new_links == extract_links(links, start_url)
         queue == Enqueue(new_links, visited_urls, urls_to_visit)
     IN /\ urls_to_visit' = queue
        /\ discovered' = discovered \o SubSeq(queue, Len(urls_to_visit) + 1, Len(queue))
        /\ refound' = (refound \/ Range(new_links) \cap failed # {})
        /\ linked' = IF crawlNo = 1 THEN linked \cup Range(new_links) ELSE linked
  /\ pages' = Append(pages, [url |-> cur, number |-> page_count])
  /\ page_count' = page_count + 1
  /\ closes' = closes + 1
  /\ live' = live - 1
  /\ pc' = "loop"
  /\ last' = "recorded"
  /\ UNCHANGED <<max_pages, visited_urls, web, start_url, pages_crawled, cur, opens,
                 crawlNo, gotoCount, failed>>

\* lines 163-194 for whatever the page holds
ProcessPage == \E links \in Hrefs(cur) : ProcessOk(links)

Next ==
  \/ \E raw \in Seeds : Crawl(raw)
  \/ Launch
  \/ LaunchRaises
  \/ LoopExit
  \/ SkipVisited
  \/ SkipDownloadable
  \/ Dequeue
  \/ OpenContext
  \/ NewContextRaises
  \/ NewPageRaises
  \/ GotoOk
  \/ GotoStatusFail
  \/ GotoTimeout
  \/ GotoError
  \/ CollaboratorRaises
  \/ ExtractRaises
  \/ ProcessPage

Spec == Init /\ [][Next]_vars

\* One step of a running crawl() call.  crawl() is sequential code and every
\* Playwright call returns or raises (page.goto within its timeout), so a
\* call that can take a step takes it; whether crawl() is called again is up
\* to the caller.
Step ==
  \/ Launch
  \/ LaunchRaises
  \/ LoopExit
  \/ SkipVisited
  \/ SkipDownloadable
  \/ Dequeue
  \/ OpenContext
  \/ NewContextRaises
  \/ NewPageRaises
  \/ GotoOk
  \/ GotoStatusFail
  \/ GotoTimeout
  \/ GotoError
  \/ CollaboratorRaises
  \/ ExtractRaises
  \/ ProcessPage

LiveSpec == Init /\ [][Next]_vars /\ WF_vars(Step)

(* ------------------------------ claims -------------------------------- *)
\* the place of the first occurrence of u in seq (0 when it has none)
FirstIndex(seq, u) ==
  IF u \in Range(seq)
  THEN CHOOSE i \in 1..Len(seq) : seq[i] = u /\ \A j \in 1..(i - 1) : seq[j] # u
  ELSE 0

\* C1: no two PageRecords of crawl_stats['pages'] carry the same normalized
\* URL, in every state of a crawl() run and at its return.
C1_NoDuplicateRecords ==
  \A i, j \in 1..Len(pages) :
    i # j => normalize_url(pages[i].url) # normalize_url(pages[j].url)

\* C1 witness: on the site A -> B, C; B -> D; C -> D a crawl returned with
\* records for B and for C, which both link to D, and for D.
C1_Witness ==
  /\ web = "diamond"
  /\ pc = "done"
  /\ {B, C, D} \subseteq PageUrlSet

\* C2: page_count and the number of records never exceed max_pages, and
\* neither does the returned pages_crawled.
C2_BudgetRespect ==
  /\ page_count <= max_pages
  /\ Len(pages) <= max_pages
  /\ pc = "done" => pages_crawled <= max_pages

\* C2 witness: a crawl returned on the budget, with URLs still queued, after a
\* fetch failure.
C2_Witness ==
  /\ pc = "done"
  /\ pages_crawled = max_pages
  /\ urls_to_visit # <<>>
  /\ failed # {}

\* C3: within one crawl() on a fresh WebCrawler page.goto is attempted at most
\* once per normalized URL, failed attempts included.
C3_AtMostOnceGoto ==
  crawlNo = 1 => \A u \in NormUrls : gotoCount[u] <= 1

\* C3 witness: on a fresh WebCrawler a URL whose attempt failed was found
\* again among the links of a later page, and the crawl returned.
C3_Witness ==
  /\ crawlNo = 1
  /\ pc = "done"
  /\ refound
  /\ \E u \in failed : gotoCount[u] = 1

\* the fetch of the current page fails: no response or status >= 400, a
\* timeout, or another navigation error
FetchFails == GotoStatusFail \/ GotoTimeout \/ GotoError

\* C4: a failed fetch leaves crawl_stats['pages'] and page_count as they were
\* and hands control back to the loop test; the failed page never has a
\* record, and the loop can go on with the frontier that is left.
C4_FailureIsolation ==
  /\ [][FetchFails => /\ pages' = pages
                      /\ page_count' = page_count
                      /\ pc' = "loop"]_vars
  /\ [](failed \cap PageUrlSet = {})
  /\ []((pc = "loop" /\ LoopCond(urls_to_visit, page_count))
          => ENABLED (Dequeue \/ SkipVisited \/ SkipDownloadable))

\* C4 witness: a page was recorded although a URL discovered before it had
\* failed to load.
C4_Witness ==
  /\ pc = "done"
  /\ \E f \in failed : \E i \in 1..Len(pages) :
       /\ FirstIndex(discovered, f) > 0
       /\ FirstIndex(discovered, f) < FirstIndex(discovered, pages[i].url)

\* C5: whenever the per-page step has ended (the loop test is reached again,
\* or crawl() has returned), context.close() was called as often as
\* browser.new_context().
C5_ResourceRelease == pc \in {"loop", "done"} => closes = opens

\* C6: at the start of every crawl() call the frontier holds only the
\* normalized seed and the visited set is empty.
C6_LifecycleIsolation ==
  pc = "launch" => (urls_to_visit = <<start_url>> /\ visited_urls = {})

\* C7: records are appended in the order in which their URLs first entered
\* the frontier; on the site A -> B, C; B -> D; C -> D with max_pages = 10 and
\* no failure (every visited URL has its record) the records are A, B, C, D.
C7_BfsOrdering ==
  /\ \A i \in 1..Len(pages) : FirstIndex(discovered, pages[i].url) > 0
  /\ \A i, j \in 1..Len(pages) :
       i < j => FirstIndex(discovered, pages[i].url) < FirstIndex(discovered, pages[j].url)
  /\ (/\ web = "diamond"
      /\ crawlNo = 1
      /\ start_url = A
      /\ max_pages = 10
      /\ pc = "done"
      /\ visited_urls = PageUrlSet) => PageUrls = <<A, B, C, D>>

\* C7 witness: the crawl of the example site returned with every visited URL
\* recorded, D among them.
C7_Witness ==
  /\ web = "diamond"
  /\ crawlNo = 1
  /\ start_url = A
  /\ max_pages = 10
  /\ pc = "done"
  /\ visited_urls = PageUrlSet
  /\ D \in PageUrlSet

\* C8: when extract_links raises on a loaded page, the page is still recorded
\* and counted, nothing is enqueued and the loop goes on.
C8_ExtractionFailureRecorded ==
  [][ExtractRaises => /\ pages' = Append(pages, [url |-> cur, number |-> page_count])
                      /\ page_count' = page_count + 1
                      /\ urls_to_visit' = urls_to_visit
                      /\ pc' = "loop"]_vars

\* C9: once the browser is launched, no error of the processing of one page
\* escapes crawl().
C9_NoPerPageErrorEscapes == pc # "raised_page"

\* C10: every PageRecord of a crawl() is on the domain of that crawl's
\* normalized start_url.
C10_DomainContainment ==
  \A i \in 1..Len(pages) : is_same_domain(start_url, pages[i].url)

\* C11: a downloadable file is never fetched and never recorded: no context
\* is open for it, page.goto is never called on it, no PageRecord carries it;
\* dequeuing it marks it visited and takes nothing from the page budget.
C11_DownloadableExclusion ==
  /\ [](\A i \in 1..Len(pages) : ~is_downloadable_file(pages[i].url))
  /\ [](\A u \in NormUrls : is_downloadable_file(u) => gotoCount[u] = 0)
  /\ [](pc \in {"open", "goto", "loaded"} => ~is_downloadable_file(cur))
  /\ [][SkipDownloadable => /\ cur' \in visited_urls'
                            /\ page_count' = page_count
                            /\ pages' = pages
                            /\ opens' = opens]_vars

\* C11 witness: a crawl whose seed is a downloadable file returned, the file
\* visited and nothing recorded for it.
C11_Witness ==
  /\ pc = "done"
  /\ is_downloadable_file(start_url)
  /\ start_url \in visited_urls
  /\ start_url \notin PageUrlSet

\* C12: the frontier never holds a normalized URL twice and never holds a
\* visited URL, the seed appended at the start of crawl() included.
C12_FrontierInvariant ==
  /\ \A i, j \in 1..Len(urls_to_visit) :
       i # j => normalize_url(urls_to_visit[i]) # normalize_url(urls_to_visit[j])
  /\ \A i \in 1..Len(urls_to_visit) : normalize_url(urls_to_visit[i]) \notin visited_urls

\* C13: crawl() returns only with the frontier empty or page_count =
\* max_pages; when it returns pages_crawled < max_pages the frontier is empty
\* and every URL that was in the frontier during the call is visited.
C13_LoopExitCondition ==
  /\ pc = "done" => (urls_to_visit = <<>> \/ page_count = max_pages)
  /\ (pc = "done" /\ pages_crawled < max_pages)
       => (urls_to_visit = <<>> /\ Range(discovered) \subseteq visited_urls)

\* C13 witness: a crawl returned under its budget after links were enqueued.
C13_Witness ==
  /\ pc = "done"
  /\ pages_crawled < max_pages
  /\ pages_crawled >= 1
  /\ Len(discovered) >= 3

\* C14: while a page is being set up or fetched its URL is already in
\* visited_urls; visited_urls never loses an element; every URL page.goto was
\* called on is in visited_urls, whatever the outcome.
C14_VisitedBeforeFetch ==
  /\ [](pc \in {"open", "goto", "loaded"} => cur \in visited_urls)
  /\ [][visited_urls \subseteq visited_urls']_vars
  /\ [](\A u \in NormUrls : gotoCount[u] > 0 => u \in visited_urls)
  /\ [](failed \subseteq visited_urls)

\* C14 witness: page.goto is about to be called on a URL, after an earlier
\* URL failed to load.
C14_Witness ==
  /\ pc = "goto"
  /\ gotoCount[cur] = 0
  /\ failed # {}
  /\ cur \in visited_urls

\* C15: at most one per-page context is open at any time: none is open when
\* browser.new_context() is about to be called, at the loop test, and when
\* crawl() has gone through browser.close().
C15_OneContextAtATime ==
  /\ live \in {0, 1}
  /\ pc \in {"loop", "open", "done"} => live = 0

\* C15 witness: new_context() is about to be called for a third page, after a
\* page that failed on its status and a page that was recorded.
C15_Witness ==
  /\ pc = "open"
  /\ opens = 2
  /\ closes = 3
  /\ Len(pages) = 1

\* C16: when a collaborator raises on a loaded page, no record is appended,
\* page_count stays, nothing is enqueued, the context is closed and control
\* is back at the loop test; the page has no record.
C16_CollaboratorFailure ==
  /\ [][CollaboratorRaises => /\ pages' = pages
                              /\ page_count' = page_count
                              /\ urls_to_visit' = urls_to_visit
                              /\ closes' = closes + 1
                              /\ live' = 0
                              /\ pc' = "loop"]_vars
  /\ [](last = "collaborator" => cur \notin PageUrlSet)

\* C16 witness: a collaborator raised on a page while the frontier still
\* holds URLs and the budget is not used up.
C16_Witness ==
  /\ last = "collaborator"
  /\ pc = "loop"
  /\ Len(pages) >= 1
  /\ LoopCond(urls_to_visit, page_count)

\* C17: on a fresh WebCrawler the URL at the front of the frontier is never
\* in visited_urls, so the skip of line 129 is never taken.
C17_DefensiveSkipDead ==
  (crawlNo = 1 /\ pc = "loop" /\ urls_to_visit # <<>>)
    => normalize_url(Head(urls_to_visit)) \notin visited_urls

\* C17 witness: on a fresh WebCrawler the loop is about to dequeue a URL after
\* a page linked to a URL that was already visited.
C17_Witness ==
  /\ crawlNo = 1
  /\ pc = "loop"
  /\ linked \cap visited_urls # {}
  /\ LoopCond(urls_to_visit, page_count)

\* C18: on a fresh WebCrawler the loop of crawl() is eventually left and
\* crawl() reaches DONE (returns its CrawlStats).
C18_Termination == (crawlNo = 1 /\ pc = "loop") ~> (pc = "done")

\* The loop itself always ends on a fresh WebCrawler: crawl() returns, or an
\* error of new_context() or new_page() leaves it.
C18_LoopEnds == (crawlNo = 1 /\ pc = "loop") ~> (pc \in {"done", "raised_page"})

\* C19: wherever the local page_count exists (from the loop on) it equals the
\* number of PageRecords; the i-th record (from 0) has number i; the returned
\* pages_crawled is the number of records.
C19_SequentialIndexing ==
  /\ pc \in {"loop", "open", "goto", "loaded", "done", "raised_page"}
       => page_count = Len(pages)
  /\ \A i \in 1..Len(pages) : pages[i].number = i - 1
  /\ pc = "done" => pages_crawled = Len(pages)

\* C19 witness: a crawl returned two records, and a URL that entered the
\* frontier between theirs failed to load.
C19_Witness ==
  /\ pc = "done"
  /\ Len(pages) >= 2
  /\ \E f \in failed :
       /\ FirstIndex(discovered, pages[1].url) < FirstIndex(discovered, f)
       /\ FirstIndex(discovered, f) < FirstIndex(discovered, pages[2].url)

\* C20: when crawl() on a fresh WebCrawler returns under its budget, every
\* URL extract_links returned on a recorded page is visited and page.goto was
\* called on it exactly once.
C20_CrawlCompleteness ==
  (crawlNo = 1 /\ pc = "done" /\ pages_crawled < max_pages)
    => \A u \in linked : u \in visited_urls /\ gotoCount[u] = 1

\* C20 witness: such a crawl returned after its pages linked to two URLs
\* besides the seed, one of which failed to load.
C20_Witness ==
  /\ crawlNo = 1
  /\ pc = "done"
  /\ pages_crawled < max_pages
  /\ Cardinality(linked \ {start_url}) >= 2
  /\ linked \cap failed # {}

====
